---- MODULE Spec2Model ----
(***************************************************************************)
(* Model of train.py: the loss functions (style_content_loss,              *)
(* high_pass_x_y, total_variation_loss), train_step and the training       *)
(* driver with its checkpoint manager and running metrics.                 *)
(*                                                                         *)
(* Numbers: tensors hold integers; scalar losses are exact rationals       *)
(* <<n, d>> in lowest terms, and <<0, 0>> is NaN (the mean of an empty     *)
(* tensor).                                                                *)
(***************************************************************************)
EXTENDS Integers, Sequences, FiniteSets, TLC

VARIABLES
    pc,             \* where the process is in __main__ (lines 60-216)
    step,           \* ckpt.step (line 106)
    net,            \* the variables of transformer and extractor (95-96)
    opt,            \* the optimizer's state (101-103)
    style_targets,  \* the global style_targets (99)
    args,           \* the parsed command line (61-70)
    metrics,        \* the four tf.keras.metrics.Mean objects (115-118)
    store,          \* the checkpoints in log_dir, oldest first (108)
    saved,          \* the steps manager.save() was called at, in order (206)
    summary,        \* the steps the summaries written so far carry (174-194)
    call            \* the last call of a loss function and its value

vars == <<pc, step, net, opt, style_targets, args, metrics, store, saved,
          summary, call>>

(* ---------------------------- bounds ---------------------------------- *)
\* every dimension of an image tensor ranges over 1..MaxDim
MaxDim == 2
\* an image tensor has at most MaxElems elements
MaxElems == 4
\* pixel values range over 0..MaxPixel
MaxPixel == 1
\* the transformer's trainable weight ranges over 1..MaxParam
MaxParam == 2
\* the driver stops taking batches once the step counter reaches MaxStep
MaxStep == 2001
\* a batch of the dataset holds at most MaxBatch images
MaxBatch == 2

(* ----------------------- rational arithmetic -------------------------- *)
Abs(n) == IF n < 0 THEN -n ELSE n

RECURSIVE GCD(_, _)
GCD(a, b) == IF b = 0 THEN a ELSE GCD(b, a % b)

NaN == <<0, 0>>
IsNaN(x) == x[2] = 0

Rat(n, d) ==
    LET g == GCD(Abs(n), d)
    IN  <<(IF n < 0 THEN -(Abs(n) \div g) ELSE n \div g), d \div g>>

Zero == Rat(0, 1)

RAdd(a, b) ==
    IF IsNaN(a) \/ IsNaN(b) THEN NaN
    ELSE Rat(a[1] * b[2] + b[1] * a[2], a[2] * b[2])

RMul(a, b) ==
    IF IsNaN(a) \/ IsNaN(b) THEN NaN
    ELSE Rat(a[1] * b[1], a[2] * b[2])

RDiv(a, n) == IF IsNaN(a) THEN NaN ELSE Rat(a[1], a[2] * n)

\* x >= 0 as a float comparison: false for NaN
NonNegative(x) == ~IsNaN(x) /\ x[1] >= 0

(* ---------------------------- tensors ---------------------------------- *)
\* a function on 1..n as an explicit tuple
List(f) == <<>> \o f

SumSeq(s) ==
    LET f[i \in 0..Len(s)] == IF i = 0 THEN 0 ELSE f[i - 1] + s[i]
    IN  f[Len(s)]

Concat(ss) ==
    LET f[i \in 0..Len(ss)] == IF i = 0 THEN <<>> ELSE f[i - 1] \o ss[i]
    IN  f[Len(ss)]

\* all elements of a rank-4 tensor image[b][y][x][c], in row-major order
Flatten(t) ==
    Concat(List([b \in 1..Len(t) |->
        Concat(List([y \in 1..Len(t[b]) |-> Concat(t[b][y])]))]))

Square(s) == List([i \in 1..Len(s) |-> s[i] * s[i]])

\* elementwise a - b, a tensor of one element broadcast against the other
Sub(a, b) ==
    IF Len(a) = Len(b) THEN List([i \in 1..Len(a) |-> a[i] - b[i]])
    ELSE IF Len(b) = 1 THEN List([i \in 1..Len(a) |-> a[i] - b[1]])
    ELSE List([i \in 1..Len(b) |-> a[1] - b[i]])

reduce_mean(s) == IF Len(s) = 0 THEN NaN ELSE Rat(SumSeq(s), Len(s))

add_n(s) ==
    LET f[i \in 0..Len(s)] == IF i = 0 THEN Zero ELSE RAdd(f[i - 1], s[i])
    IN  f[Len(s)]

Shapes ==
    {s \in (1..MaxDim) \X (1..MaxDim) \X (1..MaxDim) \X (1..MaxDim) :
        s[1] * s[2] * s[3] * s[4] <= MaxElems}

ImagesOf(s) ==
    [1..s[1] -> [1..s[2] -> [1..s[3] -> [1..s[4] -> 0..MaxPixel]]]]

Images == UNION {ImagesOf(s) : s \in Shapes}

SpatiallyConstant(image) ==
    \A b \in 1..Len(image) : \A y1, y2 \in 1..Len(image[b]) :
        \A x1, x2 \in 1..Len(image[b][y1]) :
            image[b][y1][x1] = image[b][y2][x2]

(* ------------------------- program constants --------------------------- *)
content_layers == <<"block5_conv2">>
style_layers ==
    <<"block1_conv1", "block2_conv1", "block3_conv1", "block4_conv1",
      "block5_conv1">>

Range(s) == {s[i] : i \in 1..Len(s)}
IndexOf(s, e) == CHOOSE i \in 1..Len(s) : s[i] = e

num_content_layers == Len(content_layers)
num_style_layers == Len(style_layers)

\* manager = CheckpointManager(ckpt, log_dir, max_to_keep=3)
max_to_keep == 3
\* if step % 500 == 0
ReportEvery == 500
\* ckpt = Checkpoint(step=tf.Variable(1), ...)
InitialStep == 1

\* parse_args() without arguments: the default weights; --image-size
\* (default 256) is cut down to MaxDim and --batch-size (default 4) to
\* MaxBatch
DefaultArgs ==
    [image_size |-> MaxDim, batch_size |-> MaxBatch,
     content_weight |-> Rat(10000, 1), style_weight |-> Rat(1, 100),
     tv_weight |-> Rat(1, 1)]

(* ------------------ the networks (networks.py, stubs) ------------------ *)
ParamSet == 1..MaxParam

\* the variables of the two models and their values at construction
VarNames == {"transformer", "extractor"}
InitNet == [transformer |-> 1, extractor |-> 1]
transformer_trainable_variables == {"transformer"}

\* TransformerNet.__call__: an image of the same shape
transformer(image) ==
    List([b \in 1..Len(image) |-> List([y \in 1..Len(image[b]) |->
        List([x \in 1..Len(image[b][y]) |->
            List([c \in 1..Len(image[b][y][x]) |->
                net.transformer * image[b][y][x][c]])])])])

\* StyleContentModel.__call__: one statistic per batch item for each style
\* layer, the activations themselves for each content layer
extractor(image) ==
    [style |->
        [name \in Range(style_layers) |->
            List([b \in 1..Len(image) |->
                net.extractor * IndexOf(style_layers, name)
                    * SumSeq(Flatten(<<image[b]>>))])],
     content |->
        [name \in Range(content_layers) |->
            List([i \in 1..Len(Flatten(image)) |->
                net.extractor * Flatten(image)[i]])]]

\* line 99: extractor(style_image)["style"], by the extractor as constructed
StyleTargetsOf(img) ==
    [name \in Range(style_layers) |->
        List([b \in 1..Len(img) |->
            InitNet.extractor * IndexOf(style_layers, name)
                * SumSeq(Flatten(<<img[b]>>))])]

(* --------------------------- loss functions ---------------------------- *)
\* the members of a dict in a fixed order, as the list a comprehension builds
ListOf(f, keys) ==
    LET g[T \in SUBSET keys] ==
            IF T = {} THEN <<>>
            ELSE LET k == CHOOSE k \in T : TRUE
                 IN  <<f[k]>> \o g[T \ {k}]
    IN  g[keys]

Failed(e) == [err |-> e, style_loss |-> NaN, content_loss |-> NaN]

\* variant: the style term is taken against the style activations of the
\* first argument instead of the precomputed style_targets
style_content_loss_vs_outputs(outputs, transformed_outputs) ==
    LET transformed_style_outputs == transformed_outputs.style
        content_outputs == outputs.content
        transformed_content_outputs == transformed_outputs.content
        style_terms ==
            [name \in DOMAIN transformed_style_outputs |->
                reduce_mean(Square(Sub(transformed_style_outputs[name],
                                       outputs.style[name])))]
        content_terms ==
            [name \in DOMAIN content_outputs |->
                reduce_mean(Square(Sub(transformed_content_outputs[name],
                                       content_outputs[name])))]
    IN  IF ~(DOMAIN transformed_style_outputs \subseteq DOMAIN style_targets)
        THEN Failed("KeyError")
        ELSE [err |-> "none",
              style_loss |->
                  add_n(ListOf(style_terms, DOMAIN style_terms)),
              content_loss |->
                  add_n(ListOf(content_terms, DOMAIN content_terms))]

style_content_loss(outputs, transformed_outputs) ==
    LET transformed_style_outputs == transformed_outputs.style
        content_outputs == outputs.content
        transformed_content_outputs == transformed_outputs.content
        style_terms ==
            [name \in DOMAIN transformed_style_outputs |->
                reduce_mean(Square(Sub(transformed_style_outputs[name],
                                       style_targets[name])))]
        content_terms ==
            [name \in DOMAIN content_outputs |->
                reduce_mean(Square(Sub(transformed_content_outputs[name],
                                       content_outputs[name])))]
    IN  IF ~(DOMAIN transformed_style_outputs \subseteq DOMAIN style_targets)
        THEN Failed("KeyError")
        ELSE IF DOMAIN transformed_style_outputs = {}
        THEN Failed("ValueError")
        ELSE IF ~(DOMAIN content_outputs
                    \subseteq DOMAIN transformed_content_outputs)
        THEN Failed("KeyError")
        ELSE IF DOMAIN content_outputs = {}
        THEN Failed("ValueError")
        ELSE [err |-> "none",
              style_loss |->
                  add_n(ListOf(style_terms, DOMAIN style_terms)),
              content_loss |->
                  add_n(ListOf(content_terms, DOMAIN content_terms))]

high_pass_x_y(image) ==
    [x_var |->
        List([b \in 1..Len(image) |-> List([y \in 1..Len(image[b]) |->
            List([x \in 1..(Len(image[b][y]) - 1) |->
                List([c \in 1..Len(image[b][y][x]) |->
                    image[b][y][x + 1][c] - image[b][y][x][c]])])])]),
     y_var |->
        List([b \in 1..Len(image) |-> List([y \in 1..(Len(image[b]) - 1) |->
            List([x \in 1..Len(image[b][y]) |->
                List([c \in 1..Len(image[b][y][x]) |->
                    image[b][y + 1][x][c] - image[b][y][x][c]])])])])]

total_variation_loss(image) ==
    LET d == high_pass_x_y(image)
    IN  RAdd(reduce_mean(Square(Flatten(d.x_var))),
             reduce_mean(Square(Flatten(d.y_var))))

(* --------------------------- running metrics --------------------------- *)
MetricNames ==
    {"train_loss", "train_style_loss", "train_content_loss", "train_tv_loss"}

\* tf.keras.metrics.Mean
EmptyMean == [total |-> Zero, count |-> 0]
\* variant: a reset that leaves the accumulator as it is
reset_states_noop(m) == m
update_state(m, value) ==
    [total |-> RAdd(m.total, value), count |-> m.count + 1]
result(m) == IF m.count = 0 THEN Zero ELSE RDiv(m.total, m.count)
reset_states(m) == EmptyMean

(* ------------------------------ train_step ----------------------------- *)
\* variant: the total-variation term taken on the stylized image
train_step_losses_tv_on_output(image) ==
    LET transformed_image == transformer(image)
        outputs == extractor(image)
        transformed_outputs == extractor(transformed_image)
        sc == style_content_loss(outputs, transformed_outputs)
        va_loss ==
            RMul(args.tv_weight, total_variation_loss(transformed_image))
        style_loss ==
            RMul(sc.style_loss, RDiv(args.style_weight, num_style_layers))
        content_loss ==
            RMul(sc.content_loss,
                 RDiv(args.content_weight, num_content_layers))
    IN  [loss |-> RAdd(RAdd(style_loss, content_loss), va_loss),
         style_loss |-> style_loss,
         content_loss |-> content_loss,
         va_loss |-> va_loss]

\* the four scalars train_step computes under the gradient tape
train_step_losses(image) ==
    LET transformed_image == transformer(image)
        outputs == extractor(image)
        transformed_outputs == extractor(transformed_image)
        sc == style_content_loss(outputs, transformed_outputs)
        va_loss == RMul(args.tv_weight, total_variation_loss(image))
        style_loss ==
            RMul(sc.style_loss, RDiv(args.style_weight, num_style_layers))
        content_loss ==
            RMul(sc.content_loss,
                 RDiv(args.content_weight, num_content_layers))
    IN  [loss |-> RAdd(RAdd(style_loss, content_loss), va_loss),
         style_loss |-> style_loss,
         content_loss |-> content_loss,
         va_loss |-> va_loss]

\* variant: gradients for every variable the tape watched
train_step_var_list_all == VarNames

\* the variables the gradients are taken for and the optimizer is handed
train_step_var_list == transformer_trainable_variables

\* optimizer.apply_gradients: upd[n] is the value Adam gives variable n
apply_gradients(var_list, upd) ==
    [n \in VarNames |-> IF n \in var_list THEN upd[n] ELSE net[n]]

\* the metric each scalar of a step is logged to
LoggedTo(l) ==
    [train_loss |-> l.loss, train_style_loss |-> l.style_loss,
     train_content_loss |-> l.content_loss, train_tv_loss |-> l.va_loss]

\* lines 126-151: the forward pass and the four update_state calls
train_step_metrics(image) ==
    LET l == train_step_losses(image)
    IN  [m \in MetricNames |-> update_state(metrics[m], LoggedTo(l)[m])]

\* lines 142-145: the gradients and optimizer.apply_gradients
train_step_variables(upd) ==
    [net |-> apply_gradients(train_step_var_list, upd),
     opt |-> [iterations |-> opt.iterations + 1]]

train_step(image, upd) ==
    [net |-> train_step_variables(upd).net,
     opt |-> train_step_variables(upd).opt,
     metrics |-> train_step_metrics(image)]

(* ------------------------- checkpoint manager -------------------------- *)
\* variant: a checkpoint that leaves the optimizer out
Snapshot_without_optimizer ==
    [step |-> step, opt |-> [iterations |-> 0],
     transformer |-> net.transformer]

\* what tf.train.Checkpoint(step, optimizer, transformer) writes
Snapshot == [step |-> step, opt |-> opt, transformer |-> net.transformer]

\* variant: the sweep starts one checkpoint early
manager_save_sweeps_early(st, snap) ==
    LET all == Append(st, snap)
    IN  IF Len(all) >= max_to_keep
        THEN SubSeq(all, Len(all) - max_to_keep + 2, Len(all))
        ELSE all

\* CheckpointManager.save: append, then sweep down to max_to_keep
manager_save(st, snap) ==
    LET all == Append(st, snap)
    IN  IF Len(all) > max_to_keep
        THEN SubSeq(all, Len(all) - max_to_keep + 1, Len(all))
        ELSE all

\* manager.latest_checkpoint
latest_checkpoint(st) == st[Len(st)]

(* ------------------------------ the driver ----------------------------- *)
\* load_img(style_path): one image, batch dimension 1
style_image ==
    <<[y \in 1..MaxDim |-> [x \in 1..MaxDim |->
        <<IF x = y THEN MaxPixel ELSE 0>>]]>>

\* a batch of n images cropped to image_size x image_size
BatchOf(n, p) ==
    [b \in 1..n |->
        [y \in 1..DefaultArgs.image_size |->
            [x \in 1..DefaultArgs.image_size |->
                <<IF x = 1 /\ y = 1 /\ b = 1 THEN p ELSE 0>>]]]

\* ds.batch(args.batch_size) without drop_remainder: full batches, and a
\* last batch of an epoch that may hold fewer images
Dataset ==
    {BatchOf(n, p) : n \in 1..DefaultArgs.batch_size, p \in {0, MaxPixel}}

NoCall == [fn |-> "none"]

\* the state of a process once lines 60-122 have run
Startup(w, st) ==
    /\ pc' = "start"
    /\ args' = DefaultArgs
    /\ metrics' = [m \in MetricNames |-> EmptyMean]
    /\ IF st = <<>>
       THEN /\ step' = InitialStep
            /\ opt' = [iterations |-> 0]
            /\ net' = [InitNet EXCEPT !.transformer = w]
       ELSE /\ step' = latest_checkpoint(st).step
            /\ opt' = latest_checkpoint(st).opt
            /\ net' = [InitNet EXCEPT
                          !.transformer = latest_checkpoint(st).transformer]
    /\ style_targets' =
          StyleTargetsOf(style_image)

Init ==
    /\ pc = "start"
    /\ step = InitialStep
    /\ net \in {[InitNet EXCEPT !.transformer = w] : w \in ParamSet}
    /\ opt = [iterations |-> 0]
    /\ args = DefaultArgs
    /\ style_targets =
          StyleTargetsOf(style_image)
    /\ metrics = [m \in MetricNames |-> EmptyMean]
    /\ store = <<>>
    /\ saved = <<>>
    /\ summary = {}
    /\ call = NoCall

\* lines 115-164: the metrics, the summary writer and the dataset are built
EnterLoop ==
    /\ pc = "start"
    /\ pc' = "train"
    /\ UNCHANGED <<step, net, opt, style_targets, args, metrics, store,
                   saved, summary, call>>

\* variant: the cadence test on the step before the increment
cadence_before_increment(s) == (s - 1) % ReportEvery = 0

\* line 173: if step % 500 == 0
cadence(s) == s % ReportEvery = 0

\* variant: assign instead of assign_add
assign_add_assigns(v, d) == d

\* line 170: ckpt.step.assign_add(1)
assign_add(v, d) == v + d

\* lines 167-173: train_step(image) on the next batch,
\* ckpt.step.assign_add(1) and the cadence test; when the test fails the
\* iteration goes on to lines 213-216 and ends
TrainStep ==
    /\ pc = "train"
    /\ step < MaxStep
    /\ step' = assign_add(step, 1)
    /\ \E upd \in [train_step_var_list -> ParamSet] :
          /\ net' = train_step_variables(upd).net
          /\ opt' = train_step_variables(upd).opt
    /\ IF cadence(step')
       THEN /\ metrics' \in {train_step_metrics(image) : image \in Dataset}
            /\ pc' = "emit"
       ELSE /\ metrics' \in
                  {[m \in MetricNames |->
                       reset_states(train_step_metrics(image)[m])] :
                   image \in Dataset}
            /\ pc' = "train"
    /\ UNCHANGED <<style_targets, args, store, saved, summary, call>>

\* the four scalars an emission reads: result() of each metric
Reported == [m \in MetricNames |-> result(metrics[m])]

\* lines 174-205: the summaries and the console line, each tagged with step
\* (summary keeps the tags; the values written are Reported)
Emit ==
    /\ pc = "emit"
    /\ summary' = summary \cup {step}
    /\ pc' = "save"
    /\ UNCHANGED <<step, net, opt, style_targets, args, metrics, store,
                   saved, call>>

\* lines 206-211: manager.save()
Save ==
    /\ pc = "save"
    /\ store' = manager_save(store, Snapshot)
    /\ saved' = Append(saved, step)
    /\ pc' = "reset"
    /\ UNCHANGED <<step, net, opt, style_targets, args, metrics, summary, call>>

\* lines 213-216: reset_states() on the four metrics, after a report
Reset ==
    /\ pc = "reset"
    /\ metrics' = [m \in MetricNames |-> reset_states(metrics[m])]
    /\ pc' = "train"
    /\ UNCHANGED <<step, net, opt, style_targets, args, store, saved,
                   summary, call>>

\* lines 166-167: the dataset is exhausted in the last epoch
Finish ==
    /\ pc = "train"
    /\ pc' = "done"
    /\ UNCHANGED <<step, net, opt, style_targets, args, metrics, store,
                   saved, summary, call>>

\* the process ends (or is killed) and train.py is started again on the
\* same log directory: lines 95-122
Restart ==
    /\ \E w \in ParamSet : Startup(w, store)
    /\ UNCHANGED <<store, saved, summary, call>>

Next == EnterLoop \/ TrainStep \/ Emit \/ Save \/ Reset \/ Finish \/ Restart

Spec == Init /\ [][Next]_vars

(* ------------- the loss functions called on drawn inputs --------------- *)
Restrict(f, S) == [k \in S |-> f[k]]

\* the weights of the command line: the defaults, and another choice
ArgsSet ==
    {DefaultArgs,
     [DefaultArgs EXCEPT !.content_weight = Rat(3, 1),
                         !.style_weight = Rat(2, 1),
                         !.tv_weight = Rat(5, 1)]}

\* the style-layer names a bundle may carry: all of them, or one missing
TargetKeySets ==
    {Range(style_layers), Range(style_layers) \ {"block1_conv1"}}
OutputKeySets == TargetKeySets \cup {Range(style_layers) \ {"block5_conv1"}}

LossInit ==
    /\ pc = "call"
    /\ step = InitialStep
    /\ net \in {[InitNet EXCEPT !.transformer = w] : w \in ParamSet}
    /\ opt = [iterations |-> 0]
    /\ args \in ArgsSet
    /\ style_targets \in
          {Restrict(StyleTargetsOf(style_image), T) : T \in TargetKeySets}
    /\ metrics = [m \in MetricNames |-> EmptyMean]
    /\ store = <<>>
    /\ saved = <<>>
    /\ summary = {}
    /\ call = NoCall

Returns(c) ==
    /\ pc' = "returned"
    /\ call' = c
    /\ UNCHANGED <<step, net, opt, style_targets, args, metrics, store,
                   saved, summary>>

CallTotalVariation ==
    /\ pc = "call"
    /\ \E image \in Images :
        Returns([fn |-> "total_variation_loss", image |-> image,
                 value |-> total_variation_loss(image)])

\* outputs of an image and of its stylization, the latter carrying the
\* style layers S
CallStyleContent ==
    /\ pc = "call"
    /\ \E image \in Images, S \in OutputKeySets :
        \E o \in {extractor(image)}, t \in {extractor(transformer(image))} :
            \E tr \in {[t EXCEPT !.style = Restrict(t.style, S)]} :
                Returns([fn |-> "style_content_loss", outputs |-> o,
                         transformed_outputs |-> tr,
                         value |-> style_content_loss(o, tr)])

\* the same bundle passed as both arguments
CallStyleContentSame ==
    /\ pc = "call"
    /\ \E image \in Images :
        \E o \in {extractor(image)} :
            Returns([fn |-> "style_content_loss", outputs |-> o,
                     transformed_outputs |-> o,
                     value |-> style_content_loss(o, o)])

CallTrainStep ==
    /\ pc = "call"
    /\ DOMAIN style_targets = Range(style_layers)
    /\ \E image \in Images, upd \in [train_step_var_list -> ParamSet] :
          Returns([fn |-> "train_step", image |-> image,
                   value |-> train_step(image, upd)])

LossNext ==
    CallTotalVariation \/ CallStyleContent \/ CallStyleContentSame
        \/ CallTrainStep

SpecLoss == LossInit /\ [][LossNext]_vars

(* ======================= properties of the driver ====================== *)
Last(q) == q[Len(q)]
Min(a, b) == IF a < b THEN a ELSE b

IsRestart == pc' = "start"
IsTrainStep == pc = "train" /\ pc' \in {"emit", "train"} /\ opt' # opt

\* C1 as stated: the step counter never decreases over any sequence of
\* driver operations, restarts with restore included, while checkpoints
\* exist.
C1_StepNeverDecreases == [][store # <<>> => step' >= step]_vars

\* C1, amended: a fresh run starts at step 1; within one process the step
\* grows by exactly 1 with each processed batch and changes in no other
\* operation; a restart sets it to the step of the most recently saved
\* checkpoint (1 when there is none), which is never above the step the
\* process had reached.
C1_StepWithinRun ==
    /\ [](pc = "start" /\ saved = <<>> => step = InitialStep)
    /\ [][/\ IsTrainStep => step' = step + 1
          /\ IsRestart =>
                /\ step' = IF saved = <<>> THEN InitialStep ELSE Last(saved)
                /\ step' <= step
          /\ ~IsTrainStep /\ ~IsRestart => step' = step]_vars

\* a restart has thrown away the steps taken since the last save
C1_Witness ==
    /\ pc = "start"
    /\ saved # <<>>
    /\ step = Last(saved)
    /\ Len(saved) >= 2
    /\ opt.iterations = step - 1

JustSaved == pc = "reset" /\ saved # <<>> /\ Last(saved) = step

\* C2: a restart right after manager.save() restores the step, the optimizer
\* state and the transformer parameters exactly as they were saved.
C2_SaveThenRestore ==
    [][JustSaved /\ IsRestart =>
          /\ step' = step
          /\ opt' = opt
          /\ net'.transformer = net.transformer]_vars

\* a process that has restored a checkpoint taken after training
C2_Witness ==
    /\ pc = "start"
    /\ store # <<>>
    /\ step = Last(store).step
    /\ opt = Last(store).opt
    /\ opt.iterations > 0
    /\ net.transformer = Last(store).transformer
    /\ net.transformer # InitNet.transformer

\* C3: the store holds at most max_to_keep checkpoints, all of the saved ones
\* until there are more than that, and from then on exactly the max_to_keep
\* most recently saved steps, oldest first.
C3_Retention ==
    /\ Len(store) <= max_to_keep
    /\ Len(store) = Min(Len(saved), max_to_keep)
    /\ \A i \in 1..Len(store) :
          store[i].step = saved[Len(saved) - Len(store) + i]

\* a save beyond capacity has evicted the oldest checkpoint
C3_Witness ==
    /\ Len(saved) > max_to_keep
    /\ Len(store) = max_to_keep
    /\ store[1].step = saved[2]

\* C4: summaries and checkpoints are written in exactly the iterations whose
\* incremented step is a multiple of 500, the summary before the checkpoint,
\* both tagged with that step.
C4_Cadence ==
    /\ \A s \in summary : s % ReportEvery = 0
    /\ \A i \in 1..Len(saved) : saved[i] % ReportEvery = 0
    /\ pc = "emit" =>
          /\ step % ReportEvery = 0
          /\ saved = <<>> \/ Last(saved) < step
    /\ pc = "save" =>
          /\ step % ReportEvery = 0
          /\ step \in summary
          /\ saved = <<>> \/ Last(saved) < step
    /\ pc \in {"reset", "train", "done", "start"} /\ step % ReportEvery = 0 =>
          /\ step \in summary
          /\ saved # <<>>
          /\ Last(saved) = step
          /\ Last(store).step = step

\* the second report of a run is through: summary and checkpoint at 1000
C4_Witness ==
    /\ pc = "reset"
    /\ step = 2 * ReportEvery
    /\ summary = {ReportEvery, 2 * ReportEvery}
    /\ saved = <<ReportEvery, 2 * ReportEvery>>

\* C5: the extractor's parameters and the style targets are what they were
\* at the start of the run, whatever steps have been taken.
C5_Frame ==
    /\ net.extractor = InitNet.extractor
    /\ style_targets = StyleTargetsOf(style_image)

\* training has moved the transformer's parameters
C5_Witness ==
    /\ pc = "train"
    /\ opt.iterations >= 2
    /\ net.transformer # InitNet.transformer

\* C10: the four metrics are empty whenever an iteration begins and when
\* one without a report has ended; at a report they hold exactly the losses
\* of the step just taken, with count 1, so every emission reports the
\* losses of the latest step alone.
C10_ResetEveryIteration ==
    /\ [](/\ pc \in {"start", "train", "done"} =>
                \A m \in MetricNames : metrics[m] = EmptyMean
          /\ pc = "emit" =>
                \A m \in MetricNames :
                    /\ metrics[m].count = 1
                    /\ Reported[m] = metrics[m].total)
    /\ [][IsTrainStep =>
            IF pc' = "emit"
            THEN \E image \in Dataset :
                    \A m \in MetricNames :
                        metrics'[m] =
                            [total |-> LoggedTo(train_step_losses(image))[m],
                             count |-> 1]
            ELSE \A m \in MetricNames : metrics'[m] = EmptyMean]_vars

\* an emission, 500 steps after the one before it, that reads count 1
C10_Witness ==
    /\ pc = "emit"
    /\ step = 2 * ReportEvery
    /\ metrics["train_loss"].count = 1
    /\ metrics["train_loss"].total # Zero

(* =================== properties of the loss functions ================== *)
AllZero(q) == \A i \in 1..Len(q) : q[i] = 0

\* C6 as stated: identical bundles give content_loss = 0 and style_loss = 0
\* whatever the style targets are.
C6_IdenticalBundlesBothZero ==
    call.fn = "style_content_loss"
        /\ call.outputs = call.transformed_outputs
        /\ DOMAIN call.outputs.style \subseteq DOMAIN style_targets
    => /\ call.value.content_loss = Zero
       /\ call.value.style_loss = Zero

\* C6, amended: with identical bundles whose style layers the style targets
\* cover, content_loss = 0, and style_loss is the summed mean squared
\* difference between the bundle's style activations and the style targets:
\* never negative, and 0 exactly when the two agree on every layer.
C6_IdenticalBundles ==
    call.fn = "style_content_loss"
        /\ call.outputs = call.transformed_outputs
        /\ DOMAIN call.outputs.style \subseteq DOMAIN style_targets
    => /\ call.value.err = "none"
       /\ call.value.content_loss = Zero
       /\ NonNegative(call.value.style_loss)
       /\ call.value.style_loss = Zero <=>
             \A name \in DOMAIN call.outputs.style :
                 AllZero(Sub(call.outputs.style[name], style_targets[name]))

\* identical bundles of a non-trivial image that differ from the style targets
C6_Witness ==
    /\ call.fn = "style_content_loss"
    /\ call.outputs = call.transformed_outputs
    /\ call.value.err = "none"
    /\ call.value.content_loss = Zero
    /\ call.value.style_loss # Zero
    /\ ~AllZero(call.outputs.content["block5_conv2"])

\* C7: style_content_loss fails whenever the style-layer names of the
\* stylized bundle and of the style targets differ, in either direction.
C7_KeyMismatchFails ==
    call.fn = "style_content_loss"
        /\ DOMAIN call.transformed_outputs.style # DOMAIN style_targets
    => call.value.err # "none"

\* C8: total_variation_loss is non-negative for every image, images of
\* height or width 1 included, and 0 for every spatially constant image.
C8_TotalVariation ==
    call.fn = "total_variation_loss"
    => /\ NonNegative(call.value)
       /\ SpatiallyConstant(call.image) => call.value = Zero

\* C9: the total loss of a step is
\*   style * (style_weight / num_style_layers)
\*   + content * (content_weight / num_content_layers) + tv_weight * tv,
\* tv taken on the input batch, and the four metrics receive the three
\* weighted terms and this total.
C9_WeightedTotal ==
    call.fn = "train_step" =>
        LET image == call.image
            sc == style_content_loss(extractor(image),
                                     extractor(transformer(image)))
            style == RMul(sc.style_loss,
                          RDiv(args.style_weight, num_style_layers))
            content == RMul(sc.content_loss,
                            RDiv(args.content_weight, num_content_layers))
            tv == RMul(args.tv_weight, total_variation_loss(image))
            total == RAdd(RAdd(style, content), tv)
            logged == call.value.metrics
        IN  /\ logged["train_loss"] = [total |-> total, count |-> 1]
            /\ logged["train_style_loss"] = [total |-> style, count |-> 1]
            /\ logged["train_content_loss"] =
                  [total |-> content, count |-> 1]
            /\ logged["train_tv_loss"] = [total |-> tv, count |-> 1]

\* a step in which all three terms are non-zero
C9_Witness ==
    /\ call.fn = "train_step"
    /\ \A m \in MetricNames :
          /\ ~IsNaN(call.value.metrics[m].total)
          /\ call.value.metrics[m].total # Zero
          /\ call.value.metrics[m].count = 1
    /\ args # DefaultArgs

====
